---- MODULE Spec2Model ----
(***************************************************************************)
(* Model of src/dashboard_siga_v7.py, a Streamlit script.                  *)
(*                                                                         *)
(* Streamlit re-executes the whole script after every operator             *)
(* interaction.  An interaction changes the state the script reads (the    *)
(* uploaded file or a widget's value) and the script then runs from line 1 *)
(* to its end or to the first st.stop(); each such interaction and its run *)
(* are one step of the model.  A button with on_click is two steps: the    *)
(* callback (pc: "idle" -> "callback"), then the run that follows it       *)
(* (pc: "callback" -> "idle").                                             *)
(*                                                                         *)
(* What the model takes from the framework's documented contract:          *)
(*  - st.session_state is a dictionary that outlives the run;              *)
(*  - a widget created with key=K reads and writes st.session_state[K]:    *)
(*    when K is already present the widget returns that value and its      *)
(*    value=/default= argument is not used;                                *)
(*  - a widget without a key keeps the operator's choice while it is       *)
(*    rendered with the same arguments, and shows its default otherwise;   *)
(*  - st.cache_data hands out a fresh copy of the cached table per call.   *)
(* The framework's removal of session entries of keyed widgets that were   *)
(* not rendered in a run is outside the source and is not modelled: the    *)
(* entries the script writes stay until the script overwrites them.        *)
(*                                                                         *)
(* Column and value names are the source's, written in ASCII.              *)
(***************************************************************************)
EXTENDS Integers, Sequences, FiniteSets, TLC

\* Longest spreadsheet (number of data rows) the operator uploads.
MaxRows == 2

----------------------------------------------------------------------------
(* Cells of the two date columns.                                          *)
(*   Ts    a pandas Timestamp (date and minutes after midnight)            *)
(*   NaT   the missing date-time                                           *)
(*   Ymd   the text 'YYYY-MM-DD' that strftime('%Y-%m-%d') writes          *)
(*   NaN   the missing value of an object column                           *)
(*   Txt   any other text of a cell                                        *)

Ts(y, m, d, hm) == [tag |-> "Timestamp", y |-> y, m |-> m, d |-> d, hm |-> hm]

NaT == [tag |-> "NaT"]

Ymd(y, m, d) == [tag |-> "str%Y-%m-%d", y |-> y, m |-> m, d |-> d]

NaN == [tag |-> "NaN"]

Txt(s) == [tag |-> "str", s |-> s]

\* pd.notna(x)
notna(x) == x.tag \notin {"NaT", "NaN"}

\* pd.to_datetime(cell, errors="coerce"), cell by cell
to_datetime(x) ==
    CASE x.tag = "Timestamp" -> x
      [] x.tag = "str%Y-%m-%d" -> Ts(x.y, x.m, x.d, 0)
      [] OTHER -> NaT

\* Series.dt.strftime('%Y-%m-%d'), cell by cell: NaT becomes NaN
strftime(x) ==
    IF x.tag = "Timestamp" THEN Ymd(x.y, x.m, x.d) ELSE NaN

----------------------------------------------------------------------------
(* Rows of the spreadsheets the operator uploads.  Every sheet is a        *)
(* sequence of at most MaxRows of these rows; Id is the row's position.    *)

colunas_excluir == {"Status"}

fiscais(email) ==
    IF email = "norconsult001@gmail.com" THEN "Fiscal SIGA RPA 1" ELSE email

SheetRow(tipo, fiscal, rpa, ultima, abertura) ==
    [Id |-> 0, TipoDeServico |-> tipo, Fiscal |-> fiscal, RPA |-> rpa,
     UltimaFiscalizacao |-> ultima, DataDeAbertura |-> abertura,
     Status |-> "Em andamento"]

SheetRows ==
    { SheetRow("Buraco SIGA", "norconsult001@gmail.com", "RPA 1",
               Ts(2024, 1, 15, 570), Ts(2023, 12, 1, 0)),
      SheetRow("Buraco SIGA", "norconsult001@gmail.com", "RPA 2",
               Ts(2024, 2, 3, 0), Ts(2023, 12, 1, 0)),
      SheetRow("Buraco SIGA", "Fiscal Externo", "RPA 1",
               Ts(2022, 11, 20, 0), Txt("sem data")),
      SheetRow("Buraco SIGA", "Fiscal Externo", "RPA 2",
               Txt("not a date"), Ts(2023, 12, 1, 0)),
      SheetRow("Poda", "Fiscal Externo", "RPA 2",
               Ts(2023, 6, 5, 0), Ts(2023, 12, 1, 0)) }

WithIds(rows) == [i \in 1..Len(rows) |-> [rows[i] EXCEPT !.Id = i]]

Sheets == { WithIds(s) : s \in UNION { [1..n -> SheetRows] : n \in 0..MaxRows } }

\* datetime.date.today(): the date the session runs on
Hojes == { [y |-> 2024, m |-> 3, d |-> 9] }

\* sorted(): the order of the service types
TipoOrder == <<"Buraco SIGA", "Poda">>

----------------------------------------------------------------------------
(* DataFrames: the dtype of the two date columns and the rows.             *)

DataFrame(dtA, dtU, rows) ==
    [dtypes |-> [DataDeAbertura |-> dtA, UltimaFiscalizacao |-> dtU],
     rows |-> rows]

EmptyDF == DataFrame("object", "object", <<>>)

Range(s) == { s[i] : i \in 1..Len(s) }

SetMax(S) == CHOOSE x \in S : \A y \in S : y <= x

SetMin(S) == CHOOSE x \in S : \A y \in S : x <= y

\* @st.cache_data def load_and_preprocess_data(uploaded_file)
load_and_preprocess_data(uploaded_file) ==
    LET norm(r) ==
            [c \in (DOMAIN r) \ colunas_excluir |->
                CASE c = "DataDeAbertura" -> to_datetime(r[c])
                  [] c = "UltimaFiscalizacao" -> to_datetime(r[c])
                  [] c = "Fiscal" -> fiscais(r[c])
                  [] OTHER -> r[c]]
    IN DataFrame("datetime64[ns]", "datetime64[ns]",
                 [i \in 1..Len(uploaded_file) |-> norm(uploaded_file[i])])

\* df_to_export as the for loop of lines 54-55 leaves it: every column of
\* dtype datetime64[ns] is overwritten, in place, by its strftime text.
format_datetime_columns(df_to_export) ==
    LET isdt(c) == df_to_export.dtypes[c] = "datetime64[ns]"
        cell(r, c) == IF c \in DOMAIN df_to_export.dtypes /\ isdt(c)
                      THEN strftime(r[c]) ELSE r[c]
    IN [dtypes |-> [c \in DOMAIN df_to_export.dtypes |->
                       IF isdt(c) THEN "object" ELSE df_to_export.dtypes[c]],
        rows |-> [i \in 1..Len(df_to_export.rows) |->
                    [c \in DOMAIN df_to_export.rows[i] |->
                        cell(df_to_export.rows[i], c)]]]

\* def download_excel_with_formatting(df_to_export, filename, sheet_name):
\* the table the caller's variable holds afterwards, and the rows written.
download_excel_with_formatting(df_to_export) ==
    LET after == format_datetime_columns(df_to_export)
    IN [df_to_export |-> after, buffer |-> after.rows]

month_names ==
    [m \in 1..12 |->
        CASE m = 1 -> "Janeiro" [] m = 2 -> "Fevereiro" [] m = 3 -> "Marco"
          [] m = 4 -> "Abril" [] m = 5 -> "Maio" [] m = 6 -> "Junho"
          [] m = 7 -> "Julho" [] m = 8 -> "Agosto" [] m = 9 -> "Setembro"
          [] m = 10 -> "Outubro" [] m = 11 -> "Novembro" [] OTHER -> "Dezembro"]

\* Series.dropna() of the 'Ultima Fiscalizacao' column, as a set of cells
valid_dates(df) ==
    { r.UltimaFiscalizacao : r \in { x \in Range(df.rows) : notna(x.UltimaFiscalizacao) } }

\* st.session_state[key] = value
Put(ss, key, value) ==
    [k \in (DOMAIN ss) \cup {key} |-> IF k = key THEN value ELSE ss[k]]

\* The callback without the to_datetime of line 89: the column the export
\* turned into text has no date-time cell, and the callback falls back.
clear_temporal_filters_without_coercion(ss, today) ==
    LET fallback ==
            Put(Put(ss, "fiscal_year_slider", today.y), "fiscal_month_multiselect", {})
    IN IF "df_original_available" \in DOMAIN ss
          /\ ss["df_original_available"].rows # <<>>
       THEN LET df_temp == ss["df_original_available"]
                col == { r.UltimaFiscalizacao : r \in Range(df_temp.rows) }
                valid_fiscalizacao_dates == { d \in col : d.tag = "Timestamp" }
            IN IF valid_fiscalizacao_dates # {}
               THEN LET reset_year == SetMax({ d.y : d \in valid_fiscalizacao_dates })
                        reset_months_nums ==
                            { d.m : d \in { x \in valid_fiscalizacao_dates : x.y = reset_year } }
                        reset_month_names == { month_names[m] : m \in reset_months_nums }
                    IN Put(Put(ss, "fiscal_year_slider", reset_year),
                           "fiscal_month_multiselect", reset_month_names)
               ELSE fallback
       ELSE fallback

\* def _clear_temporal_filters(): the session state the callback leaves
clear_temporal_filters(ss, today) ==
    LET fallback ==
            Put(Put(ss, "fiscal_year_slider", today.y), "fiscal_month_multiselect", {})
    IN IF "df_original_available" \in DOMAIN ss
          /\ ss["df_original_available"].rows # <<>>
       THEN LET df_temp == ss["df_original_available"]
                col == { to_datetime(r.UltimaFiscalizacao) : r \in Range(df_temp.rows) }
                valid_fiscalizacao_dates == { d \in col : notna(d) }
            IN IF valid_fiscalizacao_dates # {}
               THEN LET reset_year == SetMax({ d.y : d \in valid_fiscalizacao_dates })
                        reset_months_nums ==
                            { d.m : d \in { x \in valid_fiscalizacao_dates : x.y = reset_year } }
                        reset_month_names == { month_names[m] : m \in reset_months_nums }
                    IN Put(Put(ss, "fiscal_year_slider", reset_year),
                           "fiscal_month_multiselect", reset_month_names)
               ELSE fallback
       ELSE fallback

----------------------------------------------------------------------------
(* Widgets.                                                                *)

\* A widget without a key (lines 131, 141, 150): the operator's choice while
\* the widget is rendered with the same options, its default otherwise.
multiselect(w, options, default) ==
    IF w.rendered /\ w.options = options THEN w.value ELSE default

\* A widget with key=key (lines 191-197, 215-220): the session entry when
\* there is one, the value=/default= argument otherwise.
keyed_widget(ss, key, default) ==
    IF key \in DOMAIN ss THEN ss[key] ELSE default

NoWidget == [rendered |-> FALSE, options |-> {}, value |-> {}]

Widget(options, value) == [rendered |-> TRUE, options |-> options, value |-> value]

\* The selection computed and dropped: the table is left as it was.
isin_result_dropped(df, col, selected) == df

\* df[df[col].isin(selected)]
isin(df, col, selected) ==
    LET keep(r) == r[col] \in selected
    IN [df EXCEPT !.rows = SelectSeq(df.rows, keep)]

\* sorted(df[col].dropna().unique()), as a set
disponiveis(df, col) == { r[col] : r \in Range(df.rows) }

\* tipo_padrao, line 130
tipo_padrao(tipos_disponiveis) ==
    IF "Buraco SIGA" \in tipos_disponiveis THEN {"Buraco SIGA"}
    ELSE IF tipos_disponiveis = {} THEN {}
    ELSE { TipoOrder[SetMin({ i \in 1..Len(TipoOrder) : TipoOrder[i] \in tipos_disponiveis })] }

----------------------------------------------------------------------------
(* The temporal filter, lines 162-230.                                     *)

years_of(dates) == { d.y : d \in dates }

\* lines 167-174: the entries the script creates when they are absent
init_temporal_state(ss, df_original, today) ==
    LET ss1 == IF "fiscal_year_slider" \in DOMAIN ss THEN ss
               ELSE Put(ss, "fiscal_year_slider",
                        IF valid_dates(df_original) # {}
                        THEN SetMax(years_of(valid_dates(df_original)))
                        ELSE today.y)
    IN IF "fiscal_month_multiselect" \in DOMAIN ss1 THEN ss1
       ELSE Put(ss1, "fiscal_month_multiselect", {})

\* The clamp without its elif: a year above the range is kept.
clamp_year_without_upper_bound(year, min_year, max_year) ==
    IF year < min_year THEN min_year ELSE year

\* lines 181-184
clamp_year(year, min_year, max_year) ==
    IF year < min_year THEN min_year
    ELSE IF year > max_year THEN max_year
    ELSE year

\* The filter without its month condition.
year_month_filter_year_only(df, selected_year, selected_months_nums) ==
    LET keep(r) == /\ notna(r.UltimaFiscalizacao)
                   /\ r.UltimaFiscalizacao.y = selected_year
    IN [df EXCEPT !.rows = SelectSeq(df.rows, keep)]

\* The filter letting the rows with a missing date through.
year_month_filter_keeping_missing(df, selected_year, selected_months_nums) ==
    LET keep(r) == \/ ~notna(r.UltimaFiscalizacao)
                   \/ /\ r.UltimaFiscalizacao.y = selected_year
                      /\ r.UltimaFiscalizacao.m \in selected_months_nums
    IN [df EXCEPT !.rows = SelectSeq(df.rows, keep)]

\* lines 223-226
year_month_filter(df, selected_year, selected_months_nums) ==
    LET keep(r) == /\ notna(r.UltimaFiscalizacao)
                   /\ r.UltimaFiscalizacao.y = selected_year
                   /\ r.UltimaFiscalizacao.m \in selected_months_nums
    IN [df EXCEPT !.rows = SelectSeq(df.rows, keep)]

\* lines 208-212
default_months(persisted, available_month_names) ==
    LET kept == persisted \cap available_month_names
    IN IF kept = {} /\ available_month_names # {} THEN available_month_names ELSE kept

NoTemporal ==
    [branch |-> "not_reached", year_read |-> {}, selected_year |-> {},
     year_range |-> {},
     available_month_names |-> {}, default_months_for_multiselect |-> {},
     selected_months_names |-> {}]

----------------------------------------------------------------------------
(* 'Dias desde ultima fiscalizacao', lines 233-236.                        *)

None == [tag |-> "None"]

Dias(n) == [tag |-> "int", v |-> n]

\* date.toordinal() up to a constant: days of the proleptic Gregorian calendar
ordinal(y, m, d) ==
    LET yy == IF m <= 2 THEN y - 1 ELSE y
        era == yy \div 400
        yoe == yy - era * 400
        mp == (m + 9) % 12
        doy == (153 * mp + 2) \div 5 + d - 1
        doe == yoe * 365 + yoe \div 4 - yoe \div 100 + doy
    IN era * 146097 + doe

\* lambda x: (hoje - x.date()).days if pd.notna(x) else None
dias_desde(x, today) ==
    IF notna(x)
    THEN Dias(ordinal(today.y, today.m, today.d) - ordinal(x.y, x.m, x.d))
    ELSE None

with_dias(df, today) ==
    [df EXCEPT !.rows =
        [i \in 1..Len(df.rows) |->
            [c \in (DOMAIN df.rows[i]) \cup {"Dias"} |->
                IF c = "Dias" THEN dias_desde(df.rows[i].UltimaFiscalizacao, today)
                ELSE df.rows[i][c]]]]

----------------------------------------------------------------------------
(* The alert table, lines 347-360.                                         *)

\* lambda x: x > alerta_dias_config if x is not None else False
acima_do_limite(x, alerta_dias_config) ==
    IF x.tag # "None" THEN x.v > alerta_dias_config ELSE FALSE

df_alerta_visual(df, alerta_dias_config) ==
    LET keep(r) == acima_do_limite(r.Dias, alerta_dias_config)
    IN SelectSeq(df.rows, keep)

\* sort_values with its default ascending=True
sort_values_asc(rows) ==
    { s \in [1..Len(rows) -> Range(rows)] :
        /\ \A i, j \in 1..Len(rows) : i # j => s[i] # s[j]
        /\ \A i \in 1..(Len(rows) - 1) : s[i].Dias.v <= s[i + 1].Dias.v }

\* sort_values(by=..., ascending=False): pandas' default sort is not stable,
\* so every descending arrangement of the rows is a possible result.
sort_values_desc(rows) ==
    { s \in [1..Len(rows) -> Range(rows)] :
        /\ \A i, j \in 1..Len(rows) : i # j => s[i] # s[j]
        /\ \A i \in 1..(Len(rows) - 1) : s[i].Dias.v >= s[i + 1].Dias.v }

\* reset_index(drop=True); index += 1
reindex_from_one(rows) ==
    [i \in 1..Len(rows) |->
        [c \in (DOMAIN rows[i]) \cup {"index"} |->
            IF c = "index" THEN i ELSE rows[i][c]]]

----------------------------------------------------------------------------
(* The script, lines 115-391, as one run.                                  *)

\* value=30 of the alert slider, line 247
alerta_default == 30

\* values of the alert slider (min_value=0, max_value=180, step=5) the
\* operator moves it to
alerta_opcoes == {30, 35, 180}

slider(w, default) == IF w.rendered THEN w.value ELSE default

NoSlider == [rendered |-> FALSE, value |-> alerta_default]

NoBuffers == [completo |-> <<>>, filtrado |-> <<>>]

----------------------------------------------------------------------------
(* State.                                                                  *)

VARIABLES
    arquivo,            \* the file in the uploader: [uploaded, sheet]
    hoje,               \* datetime.date.today()
    session_state,      \* st.session_state, a function of the keys present
    tipos_w,            \* the three multiselects without a key
    fiscais_w,
    rpas_w,
    alerta_w,           \* the alert slider
    pc,                 \* "idle", or "callback" between an on_click
                        \* callback and the run that follows it
    outcome,            \* where the last run ended
    rendered,           \* what the last run put on the page
    df,                 \* the working table of the last run (lines 236-360)
    ui,                 \* the temporal section of the sidebar in the last run
    total_servicos,     \* KPI, line 253
    df_alerta_ordenado, \* the alert table shown, lines 353-355
    buffers             \* the rows the two exports wrote

vars == <<arquivo, hoje, session_state, tipos_w, fiscais_w, rpas_w, alerta_w,
          pc, outcome, rendered, df, ui, total_servicos,
          df_alerta_ordenado, buffers>>

outputs == <<outcome, rendered, df, ui, total_servicos, df_alerta_ordenado, buffers>>

NoFile == [uploaded |-> FALSE, sheet |-> <<>>]

EmptySession == [k \in {} |-> {}]

Init ==
    /\ arquivo = NoFile
    /\ hoje \in Hojes
    /\ session_state = EmptySession
    /\ tipos_w = NoWidget
    /\ fiscais_w = NoWidget
    /\ rpas_w = NoWidget
    /\ alerta_w = NoSlider
    /\ pc = "idle"
    /\ outcome = "no_file"
    /\ rendered = {"info"}
    /\ df = EmptyDF
    /\ ui = NoTemporal
    /\ total_servicos = 0
    /\ df_alerta_ordenado = <<>>
    /\ buffers = NoBuffers

\* the years the year slider of the last run offers
slider_years ==
    IF ui.year_range = {} THEN {} ELSE SetMin(ui.year_range)..SetMax(ui.year_range)

\* A halt that also resets the temporal filters of the session.
Halt_clearing_temporal_filters(at, ss, tw, fw, rw, shown) ==
    /\ outcome' = at
    /\ session_state' = clear_temporal_filters(ss, hoje)
    /\ tipos_w' = tw
    /\ fiscais_w' = fw
    /\ rpas_w' = rw
    /\ alerta_w' = NoSlider
    /\ rendered' = shown
    /\ df' = EmptyDF
    /\ ui' = NoTemporal
    /\ total_servicos' = 0
    /\ df_alerta_ordenado' = <<>>
    /\ buffers' = NoBuffers

\* A run that ends at an st.stop() (lines 133-135, 144-146, 153-155) or in
\* the else branch of line 391: nothing below that line is computed.  ss is
\* the session state, tw, fw, rw the widgets rendered so far.
Halt(at, ss, tw, fw, rw, shown) ==
    /\ outcome' = at
    /\ session_state' = ss
    /\ tipos_w' = tw
    /\ fiscais_w' = fw
    /\ rpas_w' = rw
    /\ alerta_w' = NoSlider
    /\ rendered' = shown
    /\ df' = EmptyDF
    /\ ui' = NoTemporal
    /\ total_servicos' = 0
    /\ df_alerta_ordenado' = <<>>
    /\ buffers' = NoBuffers

\* lines 232-389: the computed column, the KPIs, the alert table and the
\* two exports.  df_t, ss_t and shown are what the temporal filter left.
Display(df_original, df_t, ss_t, shown, tw, fw, rw, aw) ==
    \E df_dias \in { with_dias(df_t, hoje) } :
    \E alerta_dias_config \in { slider(aw, alerta_default) } :
    \E completo \in { download_excel_with_formatting(df_original) } :
    \E filtrado \in { download_excel_with_formatting(df_dias) } :
    \E ordered \in sort_values_desc(df_alerta_visual(df_dias, alerta_dias_config)) :
        /\ outcome' = "complete"
        \* line 120 stored df_original itself: the entry is the object that
        \* line 368 hands to download_excel_with_formatting
        /\ session_state' = Put(ss_t, "df_original_available", completo.df_to_export)
        /\ tipos_w' = tw
        /\ fiscais_w' = fw
        /\ rpas_w' = rw
        /\ alerta_w' = [rendered |-> TRUE, value |-> alerta_dias_config]
        /\ rendered' =
              {"tipos", "fiscais", "rpas", "limpar", "alerta_slider", "metrics",
               "charts", "alerta_table", "download_completo", "download_filtrado"}
              \cup (IF Cardinality(shown.year_range) > 1 THEN {"year_slider"} ELSE {})
              \cup (IF shown.branch = "applied" THEN {"month_multiselect"} ELSE {})
        /\ df' = df_dias
        /\ ui' = shown
        /\ total_servicos' = Len(df_dias.rows)
        /\ df_alerta_ordenado' = reindex_from_one(ordered)
        /\ buffers' = [completo |-> completo.buffer, filtrado |-> filtrado.buffer]

\* lines 157-230: the temporal filter on df3, the rows the three inclusion
\* filters left, and then the rest of the run
Temporal(df_original, df3, ss, tw, fw, rw, aw) ==
    \E ss0 \in { init_temporal_state(ss, df_original, hoje) } :
    \E valid_fiscalizacao_dates_for_filter \in { valid_dates(df3) } :
    \E read \in { [NoTemporal EXCEPT !.year_read = {ss0["fiscal_year_slider"]}] } :
    IF valid_fiscalizacao_dates_for_filter = {}
    THEN Display(df_original, df3, ss0, [read EXCEPT !.branch = "no_dates"],
                 tw, fw, rw, aw)
    ELSE
    \E min_year \in { SetMin(years_of(valid_fiscalizacao_dates_for_filter)) } :
    \E max_year \in { SetMax(years_of(valid_fiscalizacao_dates_for_filter)) } :
    \E ss1 \in { Put(ss0, "fiscal_year_slider",
                     clamp_year(ss0["fiscal_year_slider"], min_year, max_year)) } :
    \E selected_year \in
          { IF min_year = max_year THEN min_year
            ELSE keyed_widget(ss1, "fiscal_year_slider", ss1["fiscal_year_slider"]) } :
    \E ss2 \in { Put(ss1, "fiscal_year_slider", selected_year) } :
    \E months_in_selected_year \in
          { { d.m : d \in { x \in valid_fiscalizacao_dates_for_filter :
                              x.y = selected_year } } } :
    \E available_month_names \in { { month_names[m] : m \in months_in_selected_year } } :
    \E default_months_for_multiselect \in
          { default_months(ss2["fiscal_month_multiselect"], available_month_names) } :
    \E shown \in { [read EXCEPT
                      !.branch = "no_months",
                      !.selected_year = {selected_year},
                      !.year_range = {min_year, max_year},
                      !.available_month_names = available_month_names,
                      !.default_months_for_multiselect = default_months_for_multiselect] } :
    IF available_month_names # {}
    THEN \E selected_months_names \in
               { keyed_widget(ss2, "fiscal_month_multiselect",
                              default_months_for_multiselect) } :
         \E selected_months_nums \in
               { { m \in DOMAIN month_names : month_names[m] \in selected_months_names } } :
         \E ss3 \in { Put(ss2, "fiscal_month_multiselect", selected_months_names) } :
         \E df4 \in { year_month_filter(df3, selected_year, selected_months_nums) } :
            Display(df_original, df4, ss3,
                    [shown EXCEPT !.branch = "applied",
                                  !.selected_months_names = selected_months_names],
                    tw, fw, rw, aw)
    ELSE Display(df_original, df3, ss2, shown, tw, fw, rw, aw)

\* lines 123-155: the three inclusion filters, each with its st.stop()
Filters(df_original, ss, tw, fw, rw, aw) ==
    \E tipos_disponiveis \in { disponiveis(df_original, "TipoDeServico") } :
    \E tipos_selecionados \in
          { multiselect(tw, tipos_disponiveis, tipo_padrao(tipos_disponiveis)) } :
    \E tw1 \in { Widget(tipos_disponiveis, tipos_selecionados) } :
    IF tipos_selecionados = {}
    THEN Halt("halt_tipo", ss, tw1, NoWidget, NoWidget, {"tipos", "warning"})
    ELSE
    \E df1 \in { isin(df_original, "TipoDeServico", tipos_selecionados) } :
    \E fiscais_disponiveis \in { disponiveis(df1, "Fiscal") } :
    \E fiscais_selecionados \in
          { multiselect(fw, fiscais_disponiveis, fiscais_disponiveis) } :
    \E fw1 \in { Widget(fiscais_disponiveis, fiscais_selecionados) } :
    IF fiscais_selecionados = {}
    THEN Halt("halt_fiscal", ss, tw1, fw1, NoWidget, {"tipos", "fiscais", "warning"})
    ELSE
    \E df2 \in { isin(df1, "Fiscal", fiscais_selecionados) } :
    \E rpas_disponiveis \in { disponiveis(df2, "RPA") } :
    \E rpas_selecionadas \in { multiselect(rw, rpas_disponiveis, rpas_disponiveis) } :
    \E rw1 \in { Widget(rpas_disponiveis, rpas_selecionadas) } :
    IF rpas_selecionadas = {}
    THEN Halt("halt_rpa", ss, tw1, fw1, rw1, {"tipos", "fiscais", "rpas", "warning"})
    ELSE
    \E df3 \in { isin(df2, "RPA", rpas_selecionadas) } :
        Temporal(df_original, df3, ss, tw1, fw1, rw1, aw)

\* One execution of the script, lines 115-391, on the file, session state
\* and widget values it finds.
Rerun(arq, ss, tw, fw, rw, aw) ==
    /\ pc' = "idle"
    /\ arquivo' = arq
    /\ UNCHANGED hoje
    /\ IF ~arq.uploaded
       THEN Halt("no_file", ss, NoWidget, NoWidget, NoWidget, {"info"})
       ELSE \E df_original \in { load_and_preprocess_data(arq.sheet) } :
            \E ss1 \in { Put(ss, "df_original_available", df_original) } :
                Filters(df_original, ss1, tw, fw, rw, aw)

\* line 15: the operator puts a spreadsheet in the uploader
Upload(sheet) ==
    /\ pc = "idle"
    /\ arquivo # [uploaded |-> TRUE, sheet |-> sheet]
    /\ Rerun([uploaded |-> TRUE, sheet |-> sheet],
             session_state, tipos_w, fiscais_w, rpas_w, alerta_w)

\* line 15: the operator removes the file from the uploader
RemoveFile ==
    /\ pc = "idle"
    /\ arquivo.uploaded
    /\ Rerun(NoFile, session_state, tipos_w, fiscais_w, rpas_w, alerta_w)

\* line 131: the operator changes the service types
SelectTipos(selected) ==
    /\ pc = "idle"
    /\ "tipos" \in rendered
    /\ selected \subseteq tipos_w.options
    /\ selected # tipos_w.value
    /\ Rerun(arquivo, session_state, [tipos_w EXCEPT !.value = selected],
             fiscais_w, rpas_w, alerta_w)

\* line 141: the operator changes the inspectors
SelectFiscais(selected) ==
    /\ pc = "idle"
    /\ "fiscais" \in rendered
    /\ selected \subseteq fiscais_w.options
    /\ selected # fiscais_w.value
    /\ Rerun(arquivo, session_state, tipos_w,
             [fiscais_w EXCEPT !.value = selected], rpas_w, alerta_w)

\* line 150: the operator changes the regions
SelectRPAs(selected) ==
    /\ pc = "idle"
    /\ "rpas" \in rendered
    /\ selected \subseteq rpas_w.options
    /\ selected # rpas_w.value
    /\ Rerun(arquivo, session_state, tipos_w, fiscais_w,
             [rpas_w EXCEPT !.value = selected], alerta_w)

\* lines 191-197: the operator moves the year slider
ChangeYear(year) ==
    /\ pc = "idle"
    /\ "year_slider" \in rendered
    /\ year \in slider_years
    /\ year # session_state["fiscal_year_slider"]
    /\ Rerun(arquivo, Put(session_state, "fiscal_year_slider", year),
             tipos_w, fiscais_w, rpas_w, alerta_w)

\* lines 215-220: the operator changes the months
ChangeMonths(months) ==
    /\ pc = "idle"
    /\ "month_multiselect" \in rendered
    /\ months \subseteq ui.available_month_names
    /\ months # session_state["fiscal_month_multiselect"]
    /\ Rerun(arquivo, Put(session_state, "fiscal_month_multiselect", months),
             tipos_w, fiscais_w, rpas_w, alerta_w)

\* lines 243-249: the operator moves the alert slider
ChangeAlerta(dias) ==
    /\ pc = "idle"
    /\ "alerta_slider" \in rendered
    /\ dias # alerta_w.value
    /\ Rerun(arquivo, session_state, tipos_w, fiscais_w, rpas_w,
             [alerta_w EXCEPT !.value = dias])

\* lines 371-389: a download button; the click only runs the script again
ClickDownload ==
    /\ pc = "idle"
    /\ "download_completo" \in rendered
    /\ Rerun(arquivo, session_state, tipos_w, fiscais_w, rpas_w, alerta_w)

\* line 239: the button's on_click callback, which runs before the script
ClickLimpar ==
    /\ pc = "idle"
    /\ "limpar" \in rendered
    /\ pc' = "callback"
    /\ session_state' = clear_temporal_filters(session_state, hoje)
    /\ UNCHANGED <<arquivo, hoje, tipos_w, fiscais_w, rpas_w, alerta_w, outputs>>

\* the run that follows the callback
RunAfterCallback ==
    /\ pc = "callback"
    /\ Rerun(arquivo, session_state, tipos_w, fiscais_w, rpas_w, alerta_w)

Next ==
    \/ \E sheet \in Sheets : Upload(sheet)
    \/ RemoveFile
    \/ \E selected \in SUBSET tipos_w.options : SelectTipos(selected)
    \/ \E selected \in SUBSET fiscais_w.options : SelectFiscais(selected)
    \/ \E selected \in SUBSET rpas_w.options : SelectRPAs(selected)
    \/ \E year \in slider_years : ChangeYear(year)
    \/ \E months \in SUBSET ui.available_month_names : ChangeMonths(months)
    \/ \E dias \in alerta_opcoes : ChangeAlerta(dias)
    \/ ClickDownload
    \/ ClickLimpar
    \/ RunAfterCallback

Spec == Init /\ [][Next]_vars

----------------------------------------------------------------------------
(* The terms of the claims.                                                *)

\* the normalized full table of the uploaded file
FullTable == load_and_preprocess_data(arquivo.sheet)

HaltOutcomes == {"halt_tipo", "halt_fiscal", "halt_rpa"}

\* a pipeline run has completed, and no callback has run since
Completed == pc = "idle" /\ outcome = "complete"

Halted == pc = "idle" /\ outcome \in HaltOutcomes

WithoutColumn(r, col) == [c \in (DOMAIN r) \ {col} |-> r[c]]

MonthOf(d) == month_names[d.m]

\* the Filter State: the three selections, the year and the months
StateYear == session_state["fiscal_year_slider"]

StateMonths == session_state["fiscal_month_multiselect"]

Included(r) ==
    /\ r.TipoDeServico \in tipos_w.value
    /\ r.Fiscal \in fiscais_w.value
    /\ r.RPA \in rpas_w.value

\* the rows of the full table that pass the three inclusion filters
IncludedRows == { r \in Range(FullTable.rows) : Included(r) }

IncludedDates ==
    { r.UltimaFiscalizacao : r \in { x \in IncludedRows : notna(x.UltimaFiscalizacao) } }

FullDates == valid_dates(FullTable)

InYear(r, year) == notna(r.UltimaFiscalizacao) /\ r.UltimaFiscalizacao.y = year

WorkingRows == { WithoutColumn(r, "Dias") : r \in Range(df.rows) }

----------------------------------------------------------------------------
(* C1: after a completed run with the three selections non-empty, the rows *)
(* of the working table are rows of the normalized full table, and each    *)
(* one is in the selected service types and in the selected inspectors and *)
(* in the selected regions and, when the year/month filter was applied,    *)
(* has its last inspection in the selected year and in a selected month.   *)
C1_WorkingRowsSatisfyAllFilters ==
    Completed =>
        /\ tipos_w.value # {} /\ fiscais_w.value # {} /\ rpas_w.value # {}
        /\ WorkingRows \subseteq Range(FullTable.rows)
        /\ \A r \in WorkingRows :
              /\ Included(r)
              /\ ui.branch = "applied" =>
                    /\ InYear(r, StateYear)
                    /\ MonthOf(r.UltimaFiscalizacao) \in StateMonths

\* a completed run whose year/month filter kept one row and dropped another
C1_Witness ==
    /\ Completed
    /\ ui.branch = "applied"
    /\ df.rows # <<>>
    /\ \E r \in IncludedRows : InYear(r, StateYear) /\ r \notin WorkingRows

(* C2, as stated: after any completed run the working table has no row     *)
(* with a missing last-inspection date.                                    *)
C2_Original ==
    Completed => \A r \in Range(df.rows) : notna(r.UltimaFiscalizacao)

(* C2, amended: after a completed run in which the year/month filter was   *)
(* applied, the working table has no row with a missing last-inspection    *)
(* date.                                                                   *)
C2_NoMissingDateWhenFilterApplied ==
    (Completed /\ ui.branch = "applied") =>
        \A r \in Range(df.rows) : notna(r.UltimaFiscalizacao)

\* the filter met a row with a missing date among the included rows, and
\* kept another row
C2_Witness ==
    /\ Completed
    /\ ui.branch = "applied"
    /\ df.rows # <<>>
    /\ \E r \in IncludedRows : ~notna(r.UltimaFiscalizacao)

----------------------------------------------------------------------------
TemporalEntries(ss) ==
    [k \in (DOMAIN ss) \cap {"fiscal_year_slider", "fiscal_month_multiselect"} |-> ss[k]]

DownstreamElements ==
    {"metrics", "charts", "alerta_table", "download_completo", "download_filtrado"}

\* a run halts exactly when a selection is empty, and then shows the
\* warning and nothing of the downstream pipeline
C3_HaltShowsNothing ==
    pc = "idle" /\ arquivo.uploaded =>
        /\ outcome = "halt_tipo" <=> tipos_w.value = {}
        /\ outcome = "halt_fiscal" <=> (tipos_w.value # {} /\ fiscais_w.value = {})
        /\ outcome = "halt_rpa" <=>
              (tipos_w.value # {} /\ fiscais_w.value # {} /\ rpas_w.value = {})
        /\ outcome \in HaltOutcomes =>
              /\ "warning" \in rendered
              /\ rendered \cap DownstreamElements = {}
              /\ df.rows = <<>>
              /\ df_alerta_ordenado = <<>>
              /\ buffers = NoBuffers
              /\ session_state["df_original_available"] = FullTable

\* a halting run leaves the year and the months of the session untouched;
\* a run after a halt with the three selections non-empty completes
C3_HaltStep ==
    /\ (outcome' \in HaltOutcomes /\ pc' = "idle") =>
          TemporalEntries(session_state)' = TemporalEntries(session_state)
    /\ (Halted /\ pc' = "idle" /\ arquivo'.uploaded
          /\ tipos_w'.value # {} /\ fiscais_w'.value # {} /\ rpas_w'.value # {}) =>
          /\ outcome' = "complete"
          /\ DownstreamElements \subseteq rendered'

----------------------------------------------------------------------------
(* C4, as stated: whenever a file is loaded and the session holds a year,  *)
(* the year lies between the minimum and the maximum year of the full      *)
(* table's valid last-inspection dates, the months are months present for  *)
(* that year in the full table, and a year the run clamped was clamped to  *)
(* the full table's range.                                                 *)
C4_FilterStateInFullTableDomain ==
    (arquivo.uploaded /\ pc = "idle" /\ outcome # "no_file"
        /\ "fiscal_year_slider" \in DOMAIN session_state /\ FullDates # {}) =>
        /\ StateYear >= SetMin(years_of(FullDates))
        /\ StateYear <= SetMax(years_of(FullDates))
        /\ StateMonths \subseteq
              { MonthOf(d) : d \in { x \in FullDates : x.y = StateYear } }
        /\ (outcome = "complete" /\ ui.branch # "no_dates") =>
              ui.selected_year =
                  { clamp_year(y, SetMin(years_of(FullDates)),
                               SetMax(years_of(FullDates))) : y \in ui.year_read }

----------------------------------------------------------------------------
(* C5: right after the reset callback the year of the Filter State is the  *)
(* maximum year of the full table's valid last-inspection dates and the    *)
(* months are exactly the months present in the full table for that year,  *)
(* whatever the working table and the selections are and whatever was      *)
(* exported before; with no file, an empty table or no valid date the year *)
(* is the current date's year and the months are empty.                     *)
C5_ResetReadsFullTable ==
    pc = "callback" =>
        IF arquivo.uploaded /\ FullTable.rows # <<>> /\ FullDates # {}
        THEN /\ StateYear = SetMax(years_of(FullDates))
             /\ StateMonths = { MonthOf(d) : d \in { x \in FullDates : x.y = StateYear } }
        ELSE /\ StateYear = hoje.y
             /\ StateMonths = {}

\* a reset after an export, with a working table of another year than the
\* one the reset chose and a region deselected
C5_Witness ==
    /\ pc = "callback"
    /\ buffers.completo # <<>>
    /\ ui.selected_year # {}
    /\ StateYear \notin ui.selected_year
    /\ rpas_w.value # rpas_w.options

----------------------------------------------------------------------------
\* whether the year/month filter applies to the included rows, given the
\* Filter State
FilterApplies == \E d \in IncludedDates : d.y = StateYear

\* the full table filtered from scratch with the current Filter State
FromScratch ==
    LET keep(r) == /\ Included(r)
                   /\ FilterApplies =>
                         /\ InYear(r, StateYear)
                         /\ MonthOf(r.UltimaFiscalizacao) \in StateMonths
    IN SelectSeq(FullTable.rows, keep)

C6_WorkingTableIsFromScratch ==
    Completed =>
        [i \in 1..Len(df.rows) |-> WithoutColumn(df.rows[i], "Dias")] = FromScratch

\* a second run on the same Filter State gives the same working table
C6_SecondRun == ClickDownload => df' = df

(* C6: the working table of a completed run is the full table filtered     *)
(* from scratch with the current Filter State, and running the script      *)
(* again on an unchanged Filter State yields the same working table.       *)
C6_PipelineIsPure == []C6_WorkingTableIsFromScratch /\ [][C6_SecondRun]_vars

\* the working table was narrowed, widened again and is smaller than the
\* full table
C6_Witness ==
    /\ Completed
    /\ ui.branch = "applied"
    /\ df.rows # <<>>
    /\ Len(df.rows) < Len(FullTable.rows)
    /\ ui.year_read # ui.selected_year

----------------------------------------------------------------------------
AlertRows == { WithoutColumn(a, "index") : a \in Range(df_alerta_ordenado) }

ExceedingRows ==
    { r \in Range(df.rows) : r.Dias.tag = "int" /\ r.Dias.v > alerta_w.value }

AlertContents ==
    /\ alerta_w.value \in 0..180
    /\ AlertRows = ExceedingRows
    /\ Len(df_alerta_ordenado) = Cardinality(ExceedingRows)
    /\ \A i \in 1..Len(df_alerta_ordenado) : df_alerta_ordenado[i].index = i
    /\ df.rows = <<>> => df_alerta_ordenado = <<>>

(* C7, as stated: the alert table holds exactly the rows of the working    *)
(* table whose days since the last inspection are non-null and above the   *)
(* threshold, ranked 1..N, in strictly descending order of that value.     *)
C7_Original ==
    Completed =>
        /\ AlertContents
        /\ \A i \in 1..(Len(df_alerta_ordenado) - 1) :
              df_alerta_ordenado[i].Dias.v > df_alerta_ordenado[i + 1].Dias.v

(* C7, amended: the alert table holds exactly the rows of the working      *)
(* table whose days since the last inspection are non-null and above the   *)
(* threshold, ranked 1..N, in descending order of that value, rows of the  *)
(* same value next to each other.                                          *)
C7_AlertTableSortedDescending ==
    Completed =>
        /\ AlertContents
        /\ \A i \in 1..(Len(df_alerta_ordenado) - 1) :
              df_alerta_ordenado[i].Dias.v >= df_alerta_ordenado[i + 1].Dias.v

\* the sort moved a later row of the working table to rank 1
C7_Witness ==
    /\ Completed
    /\ Len(df_alerta_ordenado) > 1
    /\ df_alerta_ordenado[1].Dias.v > df_alerta_ordenado[2].Dias.v
    /\ df_alerta_ordenado[1].Id > df_alerta_ordenado[2].Id

----------------------------------------------------------------------------
(* C8: after the exports of a completed run the full table held in the     *)
(* session is the normalized full table, with its date-time typed columns  *)
(* and the same values.                                                    *)
C8_ExportLeavesFullTableUnchanged ==
    Completed =>
        /\ session_state["df_original_available"].dtypes =
              [DataDeAbertura |-> "datetime64[ns]", UltimaFiscalizacao |-> "datetime64[ns]"]
        /\ session_state["df_original_available"] = FullTable

----------------------------------------------------------------------------
(* C9: a run that reaches the year/month filter with a persisted year      *)
(* below the minimum available year uses the minimum, with one above the   *)
(* maximum uses the maximum, and with one inside the range uses it         *)
(* unchanged; that year is stored and is the year of every row kept.       *)
C9_YearClampedToNearestBound ==
    (Completed /\ ui.branch # "no_dates") =>
        \A read \in ui.year_read :
            /\ IncludedDates # {}
            /\ read < SetMin(years_of(IncludedDates)) =>
                  StateYear = SetMin(years_of(IncludedDates))
            /\ read > SetMax(years_of(IncludedDates)) =>
                  StateYear = SetMax(years_of(IncludedDates))
            /\ (read >= SetMin(years_of(IncludedDates))
                  /\ read <= SetMax(years_of(IncludedDates))) => StateYear = read
            /\ ui.selected_year = {StateYear}
            /\ ui.branch = "applied" =>
                  \A r \in Range(df.rows) : InYear(r, StateYear)

\* a year above a range of more than one year was clamped, the slider
\* shown, and rows of the clamped year kept
C9_Witness ==
    /\ Completed
    /\ ui.branch = "applied"
    /\ df.rows # <<>>
    /\ "year_slider" \in rendered
    /\ \E read \in ui.year_read : read > SetMax(years_of(IncludedDates))

----------------------------------------------------------------------------
(* C10: when the persisted months are empty, or none of them is available  *)
(* for the selected year, the working table keeps every included row with  *)
(* a valid last inspection in the selected year.                           *)
C10_NoMonthsMeansAllMonths ==
    (Completed /\ ui.branch = "applied"
        /\ StateMonths \cap ui.available_month_names = {}) =>
        \A r \in IncludedRows : InYear(r, StateYear) => r \in WorkingRows

====
